---- MODULE Spec2Model ----
(***************************************************************************)
(* Model of signalform/dashboard.go: the dashboard resource of the         *)
(* signalform Terraform provider.  getPayloadDashboard and its helpers     *)
(* translate a schema.ResourceData into the JSON body of the SignalFx      *)
(* dashboard API; dashboardCreate/Read/Update/Delete map the lifecycle     *)
(* verbs onto the resourceCreate/Read/Update/Delete HTTP helpers.          *)
(***************************************************************************)
EXTENDS Integers, Sequences, FiniteSets, TLC

VARIABLES d, last, created

vars == <<d, last, created>>

(***************************************************************************)
(* Bounds of the explored resource descriptions.                           *)
(***************************************************************************)
MaxCharts == 2
MaxFilters == 1
MaxVariables == 1

(***************************************************************************)
(* Program constants.                                                      *)
(***************************************************************************)
DASHBOARD_API_URL == "https://api.signalfx.com/v2/dashboard"

\* config.SfxToken of the provider configuration handed to every handler.
SfxToken == "sfx-token"

\* The nil error.
Nil == "nil"

(***************************************************************************)
(* schema.ResourceData: the resource description and its identifier.       *)
(* An optional int is [set, val]; val is the zero value when it is unset.  *)
(***************************************************************************)
Unset == [set |-> FALSE, val |-> 0]

TimeValues == {0, 10, 20}

OptionalTimes == {Unset} \cup [set : {TRUE}, val : TimeValues]

\* (row, column, height, width) of a chart placement; the second one lies
\* outside the advisory ranges of the schema descriptions.
Layouts ==
    { [row |-> 0, column |-> 0, height |-> 1, width |-> 12],
      [row |-> 3, column |-> 12, height |-> 2, width |-> 13] }

ChartElems ==
    { [chart_id |-> c, row |-> l.row, column |-> l.column,
       height |-> l.height, width |-> l.width] : c \in {"abc", "xyz"}, l \in Layouts }

ValueSets == { {"a"}, {"a", "b"} }

VariableElems == [property : {"region"}, alias : {"Region"}, values : ValueSets]

FilterElems == [property : {"host"}, negated : BOOLEAN, values : ValueSets]

UpTo(S, n) == { x \in SUBSET S : Cardinality(x) <= n }

Ids == {"", "d1", "d2"}

\* The descriptions of a new resource (no identifier yet) over the given values.
DescriptionsOver(texts, starts, ends, charts, variables, filters) ==
    [ id : {""},
      name : {"cpu"},
      description : texts,
      dashboard_group : {"g1"},
      time_start : starts,
      time_end : ends,
      chart : charts,
      variable : variables,
      filter : filters ]

Descriptions ==
    DescriptionsOver({"", "about"}, OptionalTimes, OptionalTimes,
                     UpTo(ChartElems, MaxCharts),
                     UpTo(VariableElems, MaxVariables),
                     UpTo(FilterElems, MaxFilters))

\* d.Get(key): the value, or the zero value of the type when it is unset.
Get(rd, key) == rd[key]

\* d.GetOk(key): the value and whether it is set to a non-zero value.
GetOk(rd, key) == [val |-> rd[key].val, ok |-> rd[key].set /\ rd[key].val # 0]

\* d.Id()
Id(rd) == rd.id

\* (*schema.Set).List(): the elements in the fixed order of their hash codes,
\* each once.
RECURSIVE List(_)
List(S) ==
    IF S = {} THEN <<>>
    ELSE LET x == CHOOSE e \in S : TRUE IN <<x>> \o List(S \ {x})

(***************************************************************************)
(* Go maps and encoding/json.                                              *)
(***************************************************************************)
\* make(map[string]interface{})
EmptyMap == [k \in {} |-> 0]

\* m[k] = v
Put(m, k, v) == (k :> v) @@ m

\* len(m) of a map
MapLen(m) == Cardinality(DOMAIN m)

\* Byte order of the keys the payload uses: encoding/json writes the keys of a
\* map sorted.
KeyOrder ==
    << "NOT", "alias", "chartId", "charts", "column", "description", "end",
       "filters", "groupId", "height", "name", "property", "row", "sources",
       "start", "time", "value", "variables", "width" >>

\* The encoding of one map: its members as <<key, value>>, keys sorted.
JsonObject(m) ==
    LET ks == SelectSeq(KeyOrder, LAMBDA k : k \in DOMAIN m)
    IN  [i \in 1..Len(ks) |-> <<ks[i], m[ks[i]]>>]

\* The encoding of a slice of maps.
JsonArray(s) == [i \in 1..Len(s) |-> JsonObject(s[i])]

\* The encoding of the all_filters map.
JsonFilters(f) ==
    JsonObject([k \in DOMAIN f |->
        IF k = "time" THEN JsonObject(f[k]) ELSE JsonArray(f[k])])

\* json.Marshal(payload): the bytes and the error.  The encoder is outside the
\* repository; whether it reports an error is an input of the model.
jsonMarshal(payload, jsonFails) ==
    IF jsonFails
    THEN [bytes |-> <<>>, err |-> "json: unsupported value"]
    ELSE [bytes |-> JsonObject([k \in DOMAIN payload |->
                        CASE k = "filters" -> JsonFilters(payload[k])
                          [] k = "charts" -> JsonArray(payload[k])
                          [] OTHER -> payload[k]]),
          err |-> Nil]

(***************************************************************************)
(* The payload translator.                                                 *)
(***************************************************************************)
getDashboardTime(rd) ==
    LET time0 == EmptyMap
        start == GetOk(rd, "time_start")
        time1 == IF start.ok THEN Put(time0, "start", start.val * 1000) ELSE time0
        end   == GetOk(rd, "time_end")
        time2 == IF end.ok THEN Put(time1, "end", end.val * 1000) ELSE time1
    IN  IF MapLen(time2) > 0 THEN time2 ELSE EmptyMap

\* getDashboardCharts with the width clamped to the 12 columns of the grid.
getDashboardCharts_Clamped(rd) ==
    LET charts == List(Get(rd, "chart"))
    IN  [i \in 1..Len(charts) |->
            LET chart == charts[i]
                item0 == EmptyMap
                item1 == Put(item0, "chartId", chart.chart_id)
                item2 == Put(item1, "row", chart.row)
                item3 == Put(item2, "column", chart.column)
                item4 == Put(item3, "height", chart.height)
                item5 == Put(item4, "width", IF chart.width > 12 THEN 12 ELSE chart.width)
            IN  item5]

getDashboardCharts(rd) ==
    LET charts == List(Get(rd, "chart"))
    IN  [i \in 1..Len(charts) |->
            LET chart == charts[i]
                item0 == EmptyMap
                item1 == Put(item0, "chartId", chart.chart_id)
                item2 == Put(item1, "row", chart.row)
                item3 == Put(item2, "column", chart.column)
                item4 == Put(item3, "height", chart.height)
                item5 == Put(item4, "width", chart.width)
            IN  item5]

getDashboardVariables(rd) ==
    LET variables == List(Get(rd, "variable"))
    IN  [i \in 1..Len(variables) |->
            LET variable == variables[i]
                item0 == EmptyMap
                item1 == Put(item0, "property", variable.property)
                item2 == Put(item1, "alias", variable.alias)
                item3 == Put(item2, "value", List(variable.values))
            IN  item3]

\* getDashboardFilters writing NOT only for a negated filter.
getDashboardFilters_OmitFalse(rd) ==
    LET filters == List(Get(rd, "filter"))
    IN  [i \in 1..Len(filters) |->
            LET filter == filters[i]
                item0 == EmptyMap
                item1 == Put(item0, "property", filter.property)
                item2 == IF filter.negated THEN Put(item1, "NOT", filter.negated) ELSE item1
                item3 == Put(item2, "value", List(filter.values))
            IN  item3]

getDashboardFilters(rd) ==
    LET filters == List(Get(rd, "filter"))
    IN  [i \in 1..Len(filters) |->
            LET filter == filters[i]
                item0 == EmptyMap
                item1 == Put(item0, "property", filter.property)
                item2 == Put(item1, "NOT", filter.negated)
                item3 == Put(item2, "value", List(filter.values))
            IN  item3]

\* getPayloadDashboard without the len(all_filters) > 0 test.
getPayloadDashboard_AlwaysFilters(rd, jsonFails) ==
    LET payload0 == [name |-> Get(rd, "name"),
                     description |-> Get(rd, "description"),
                     groupId |-> Get(rd, "dashboard_group")]
        all0 == EmptyMap
        filters == getDashboardFilters(rd)
        all1 == IF Len(filters) > 0 THEN Put(all0, "sources", filters) ELSE all0
        variables == getDashboardVariables(rd)
        all2 == IF Len(variables) > 0 THEN Put(all1, "variables", variables) ELSE all1
        time == getDashboardTime(rd)
        all3 == IF MapLen(time) > 0 THEN Put(all2, "time", time) ELSE all2
        payload1 == Put(payload0, "filters", all3)
        charts == getDashboardCharts(rd)
        payload2 == IF Len(charts) > 0 THEN Put(payload1, "charts", charts) ELSE payload1
    IN  jsonMarshal(payload2, jsonFails)

\* getPayloadDashboard taking groupId from the identifier of the resource.
getPayloadDashboard_UsesId(rd, jsonFails) ==
    LET payload0 == [name |-> Get(rd, "name"),
                     description |-> Get(rd, "description"),
                     groupId |-> Id(rd)]
        all0 == EmptyMap
        filters == getDashboardFilters(rd)
        all1 == IF Len(filters) > 0 THEN Put(all0, "sources", filters) ELSE all0
        variables == getDashboardVariables(rd)
        all2 == IF Len(variables) > 0 THEN Put(all1, "variables", variables) ELSE all1
        time == getDashboardTime(rd)
        all3 == IF MapLen(time) > 0 THEN Put(all2, "time", time) ELSE all2
        payload1 == IF MapLen(all3) > 0 THEN Put(payload0, "filters", all3) ELSE payload0
        charts == getDashboardCharts(rd)
        payload2 == IF Len(charts) > 0 THEN Put(payload1, "charts", charts) ELSE payload1
    IN  jsonMarshal(payload2, jsonFails)

getPayloadDashboard(rd, jsonFails) ==
    LET payload0 == [name |-> Get(rd, "name"),
                     description |-> Get(rd, "description"),
                     groupId |-> Get(rd, "dashboard_group")]
        all0 == EmptyMap
        filters == getDashboardFilters(rd)
        all1 == IF Len(filters) > 0 THEN Put(all0, "sources", filters) ELSE all0
        variables == getDashboardVariables(rd)
        all2 == IF Len(variables) > 0 THEN Put(all1, "variables", variables) ELSE all1
        time == getDashboardTime(rd)
        all3 == IF MapLen(time) > 0 THEN Put(all2, "time", time) ELSE all2
        payload1 == IF MapLen(all3) > 0 THEN Put(payload0, "filters", all3) ELSE payload0
        charts == getDashboardCharts(rd)
        payload2 == IF Len(charts) > 0 THEN Put(payload1, "charts", charts) ELSE payload1
    IN  jsonMarshal(payload2, jsonFails)

(***************************************************************************)
(* The HTTP helpers resourceCreate/Read/Update/Delete live in another file *)
(* of the package.  Each performs one request and returns its error; what  *)
(* it does to the description follows the design document: Create assigns  *)
(* the identifier, Read populates the description from the response,      *)
(* Delete clears the identifier.  The outcome of the request (out), the    *)
(* assigned identifier and the fetched description are inputs.             *)
(***************************************************************************)
HelperErrors == {"transport error", "api error"}

HelperResults == {Nil} \cup HelperErrors

NewIds == Ids \ {""}

\* What the remote API may hold for the dashboard when it is read.
RemoteDescriptions ==
    DescriptionsOver({"", "about"}, {Unset}, {[set |-> TRUE, val |-> 20]}, {{}}, {{}}, {{}})

resourceCreate(url, token, payload, rd, out, newId) ==
    [err |-> out, d |-> IF out = Nil THEN [rd EXCEPT !.id = newId] ELSE rd]

resourceRead(url, token, rd, out, remote) ==
    [err |-> out, d |-> IF out = Nil THEN [remote EXCEPT !.id = rd.id] ELSE rd]

resourceUpdate(url, token, payload, rd, out) ==
    [err |-> out, d |-> rd]

resourceDelete(url, token, rd, out) ==
    [err |-> out, d |-> IF out = Nil THEN [rd EXCEPT !.id = ""] ELSE rd]

(***************************************************************************)
(* The lifecycle handlers.  last records the handler that ran last: the    *)
(* description it was given, whether it called the translator and what the *)
(* translator returned, the helper calls it made and the error it          *)
(* returned.  created remembers the latest request body sent by Create.    *)
(***************************************************************************)
\* fmt.Sprintf("%s/%s", base, id): the path segments of the URL.
Sprintf(base, id) == <<base, id>>

\* fmt.Errorf("Failed creating json payload: %s", err.Error())
Errorf(err) == "Failed creating json payload: error"

NotBuilt == [bytes |-> <<>>, err |-> Nil]

Call(helper, url, token, hasPayload, payload, err) ==
    [helper |-> helper, url |-> url, token |-> token,
     hasPayload |-> hasPayload, payload |-> payload, err |-> err]

Fields(rd) == [rd EXCEPT !.id = ""]

dashboardCreate ==
    \E jsonFails \in BOOLEAN :
      \E built \in {getPayloadDashboard(d, jsonFails)} :
        \E out \in HelperResults, newId \in NewIds :
            IF built.err # Nil
            THEN /\ last' = [op |-> "create", desc |-> d, translated |-> TRUE,
                             built |-> built, calls |-> <<>>,
                             result |-> Errorf(built.err)]
                 /\ UNCHANGED <<d, created>>
            ELSE LET r == resourceCreate(<<DASHBOARD_API_URL>>, SfxToken,
                                         built.bytes, d, out, newId)
                 IN  /\ last' = [op |-> "create", desc |-> d, translated |-> TRUE,
                                 built |-> built,
                                 calls |-> << Call("resourceCreate", <<DASHBOARD_API_URL>>,
                                                   SfxToken, TRUE, built.bytes, r.err) >>,
                                 result |-> r.err]
                     /\ d' = r.d
                     /\ created' = [set |-> TRUE, desc |-> Fields(d),
                                    payload |-> built.bytes]

\* dashboardRead returning nil whatever resourceRead returned.
dashboardRead_SwallowsErr ==
    \E out \in HelperResults, remote \in RemoteDescriptions :
        LET url == Sprintf(DASHBOARD_API_URL, Id(d))
            r == resourceRead(url, SfxToken, d, out, remote)
        IN  /\ last' = [op |-> "read", desc |-> d, translated |-> FALSE,
                        built |-> NotBuilt,
                        calls |-> << Call("resourceRead", url, SfxToken, FALSE, <<>>, r.err) >>,
                        result |-> Nil]
            /\ d' = r.d
            /\ UNCHANGED created

dashboardRead ==
    \E out \in HelperResults, remote \in RemoteDescriptions :
        LET url == Sprintf(DASHBOARD_API_URL, Id(d))
            r == resourceRead(url, SfxToken, d, out, remote)
        IN  /\ last' = [op |-> "read", desc |-> d, translated |-> FALSE,
                        built |-> NotBuilt,
                        calls |-> << Call("resourceRead", url, SfxToken, FALSE, <<>>, r.err) >>,
                        result |-> r.err]
            /\ d' = r.d
            /\ UNCHANGED created

\* dashboardUpdate going on to resourceUpdate after a failed json.Marshal.
dashboardUpdate_IgnoresErr ==
    \E jsonFails \in BOOLEAN :
      \E built \in {getPayloadDashboard(d, jsonFails)} :
        \E out \in HelperResults :
            LET url == Sprintf(DASHBOARD_API_URL, Id(d))
                r == resourceUpdate(url, SfxToken, built.bytes, d, out)
            IN  /\ last' = [op |-> "update", desc |-> d, translated |-> TRUE,
                            built |-> built,
                            calls |-> << Call("resourceUpdate", url, SfxToken,
                                              TRUE, built.bytes, r.err) >>,
                            result |-> r.err]
                /\ d' = r.d
                /\ UNCHANGED created

dashboardUpdate ==
    \E jsonFails \in BOOLEAN :
      \E built \in {getPayloadDashboard(d, jsonFails)} :
        \E out \in HelperResults :
            IF built.err # Nil
            THEN /\ last' = [op |-> "update", desc |-> d, translated |-> TRUE,
                             built |-> built, calls |-> <<>>,
                             result |-> Errorf(built.err)]
                 /\ UNCHANGED <<d, created>>
            ELSE LET url == Sprintf(DASHBOARD_API_URL, Id(d))
                     r == resourceUpdate(url, SfxToken, built.bytes, d, out)
                 IN  /\ last' = [op |-> "update", desc |-> d, translated |-> TRUE,
                                 built |-> built,
                                 calls |-> << Call("resourceUpdate", url, SfxToken,
                                                   TRUE, built.bytes, r.err) >>,
                                 result |-> r.err]
                     /\ d' = r.d
                     /\ UNCHANGED created

\* dashboardDelete calling the endpoint without the identifier.
dashboardDelete_BareUrl ==
    \E out \in HelperResults :
        LET url == <<DASHBOARD_API_URL>>
            r == resourceDelete(url, SfxToken, d, out)
        IN  /\ last' = [op |-> "delete", desc |-> d, translated |-> FALSE,
                        built |-> NotBuilt,
                        calls |-> << Call("resourceDelete", url, SfxToken, FALSE, <<>>, r.err) >>,
                        result |-> r.err]
            /\ d' = r.d
            /\ UNCHANGED created

dashboardDelete ==
    \E out \in HelperResults :
        LET url == Sprintf(DASHBOARD_API_URL, Id(d))
            r == resourceDelete(url, SfxToken, d, out)
        IN  /\ last' = [op |-> "delete", desc |-> d, translated |-> FALSE,
                        built |-> NotBuilt,
                        calls |-> << Call("resourceDelete", url, SfxToken, FALSE, <<>>, r.err) >>,
                        result |-> r.err]
            /\ d' = r.d
            /\ UNCHANGED created

\* The descriptions the lifecycle is explored from.
LifecycleDescriptions ==
    DescriptionsOver({"about"}, {Unset, [set |-> TRUE, val |-> 10]}, {Unset},
                     { {} } \cup { {c} : c \in { e \in ChartElems : e.chart_id = "abc" } },
                     UpTo(VariableElems, MaxVariables),
                     UpTo(FilterElems, MaxFilters))

Start(descs) ==
    /\ d \in descs
    /\ last = [op |-> "none", desc |-> d, translated |-> FALSE,
               built |-> NotBuilt, calls |-> <<>>, result |-> Nil]
    /\ created = [set |-> FALSE, desc |-> Fields(d), payload |-> <<>>]

Init == Start(LifecycleDescriptions)

Next ==
    \/ dashboardCreate
    \/ dashboardRead
    \/ dashboardUpdate
    \/ dashboardDelete

Spec == Init /\ [][Next]_vars

(***************************************************************************)
(* The translator alone, applied to every description of the bounds.       *)
(***************************************************************************)
Translate ==
    \E jsonFails \in BOOLEAN :
        /\ last' = [op |-> "translate", desc |-> d, translated |-> TRUE,
                    built |-> getPayloadDashboard(d, jsonFails),
                    calls |-> <<>>, result |-> Nil]
        /\ UNCHANGED <<d, created>>

TranslatorInit == Start(Descriptions)

TranslatorSpec == TranslatorInit /\ [][Translate]_vars

(***************************************************************************)
(* Reading an encoded payload back.                                        *)
(***************************************************************************)
Range(s) == { s[i] : i \in DOMAIN s }

JsonKeys(o) == { o[i][1] : i \in DOMAIN o }

JsonGet(o, k) == o[CHOOSE i \in DOMAIN o : o[i][1] = k][2]

\* The member k of the object o when it is there, and otherwise the empty
\* object (or array).
JsonMember(o, k) == IF k \in JsonKeys(o) THEN JsonGet(o, k) ELSE <<>>

\* The inverse renaming of one entry of charts, sources and variables.
ParseChart(o) ==
    [chart_id |-> JsonGet(o, "chartId"), row |-> JsonGet(o, "row"),
     column |-> JsonGet(o, "column"), height |-> JsonGet(o, "height"),
     width |-> JsonGet(o, "width")]

ParseFilter(o) ==
    [property |-> JsonGet(o, "property"), negated |-> JsonGet(o, "NOT"),
     values |-> Range(JsonGet(o, "value"))]

ParseVariable(o) ==
    [property |-> JsonGet(o, "property"), alias |-> JsonGet(o, "alias"),
     values |-> Range(JsonGet(o, "value"))]

\* Milliseconds back to the optional seconds.
ParseTime(t, k) ==
    IF k \in JsonKeys(t) THEN [set |-> TRUE, val |-> JsonGet(t, k) \div 1000] ELSE Unset

\* The description an encoded payload stands for.
ParsePayload(p) ==
    LET f == JsonMember(p, "filters")
        t == JsonMember(f, "time")
    IN  [ id |-> "",
          name |-> JsonGet(p, "name"),
          description |-> JsonGet(p, "description"),
          dashboard_group |-> JsonGet(p, "groupId"),
          time_start |-> ParseTime(t, "start"),
          time_end |-> ParseTime(t, "end"),
          chart |-> { ParseChart(o) : o \in Range(JsonMember(p, "charts")) },
          variable |-> { ParseVariable(o) : o \in Range(JsonMember(f, "variables")) },
          filter |-> { ParseFilter(o) : o \in Range(JsonMember(f, "sources")) } ]

\* The translator ran last and returned a payload: P of the description D.
Built == last.translated /\ last.built.err = Nil
P == last.built.bytes
D == last.desc

PFilters == JsonMember(P, "filters")
PTime == JsonMember(PFilters, "time")
PCharts == JsonMember(P, "charts")
PSources == JsonMember(PFilters, "sources")
PVariables == JsonMember(PFilters, "variables")

(***************************************************************************)
(* C1: every payload has name, description and groupId (the dashboard      *)
(* group); it has filters exactly when one of the sources, variables and   *)
(* time sub-objects is non-empty and charts exactly when the description   *)
(* has a chart; a description with no charts, variables, filters or time   *)
(* bounds gives neither filters nor charts.                                *)
(***************************************************************************)
C1_TopLevelKeys ==
    Built =>
        /\ {"name", "description", "groupId"} \subseteq JsonKeys(P)
        /\ JsonKeys(P) \subseteq {"name", "description", "groupId", "filters", "charts"}
        /\ JsonGet(P, "name") = D.name
        /\ JsonGet(P, "description") = D.description
        /\ JsonGet(P, "groupId") = D.dashboard_group
        /\ "filters" \in JsonKeys(P) <=>
              \/ Len(getDashboardFilters(D)) > 0
              \/ Len(getDashboardVariables(D)) > 0
              \/ MapLen(getDashboardTime(D)) > 0
        /\ "charts" \in JsonKeys(P) <=> D.chart # {}
        /\ ( /\ D.chart = {} /\ D.variable = {} /\ D.filter = {}
             /\ ~D.time_start.set /\ ~D.time_end.set )
           => JsonKeys(P) = {"name", "description", "groupId"}

C1_Witness ==
    /\ Built
    /\ D.chart = {} /\ D.variable = {} /\ D.filter = {}
    /\ ~D.time_start.set /\ ~D.time_end.set
    /\ D.description = ""
    /\ JsonKeys(P) = {"name", "description", "groupId"}

(***************************************************************************)
(* C2: when a filter, a variable or a time bound is set, filters is there  *)
(* and holds sources iff a filter is set, variables iff a variable is set, *)
(* time iff time_start or time_end is set (whatever its value, 0 too), and *)
(* nothing else.                                                           *)
(***************************************************************************)
C2_FilterSubKeys ==
    (Built /\ (D.filter # {} \/ D.variable # {} \/ D.time_start.set \/ D.time_end.set))
    => /\ "filters" \in JsonKeys(P)
       /\ JsonKeys(PFilters) =
             (IF D.filter # {} THEN {"sources"} ELSE {})
             \cup (IF D.variable # {} THEN {"variables"} ELSE {})
             \cup (IF D.time_start.set \/ D.time_end.set THEN {"time"} ELSE {})

(***************************************************************************)
(* C3: start is time_start * 1000 and end is time_end * 1000, and each key *)
(* is there exactly when its bound is set.                                 *)
(***************************************************************************)
C3_TimeMillis ==
    Built =>
        /\ "start" \in JsonKeys(PTime) <=> D.time_start.set
        /\ "end" \in JsonKeys(PTime) <=> D.time_end.set
        /\ "start" \in JsonKeys(PTime) => JsonGet(PTime, "start") = D.time_start.val * 1000
        /\ "end" \in JsonKeys(PTime) => JsonGet(PTime, "end") = D.time_end.val * 1000

(***************************************************************************)
(* C4: translating a description and parsing the payload back with the     *)
(* inverse renaming gives back every field value of the description.       *)
(***************************************************************************)
C4_RoundTrip ==
    Built => ParsePayload(P) = Fields(D)

(***************************************************************************)
(* C5: charts has one entry per chart placement, each with exactly the     *)
(* keys chartId, row, column, height, width and the placement's values     *)
(* unchanged.                                                              *)
(***************************************************************************)
C5_Charts ==
    Built =>
        /\ Len(PCharts) = Cardinality(D.chart)
        /\ \A i \in DOMAIN PCharts :
              JsonKeys(PCharts[i]) = {"chartId", "row", "column", "height", "width"}
        /\ { ParseChart(PCharts[i]) : i \in DOMAIN PCharts } = D.chart

C5_Witness ==
    /\ Built
    /\ Cardinality(D.chart) = MaxCharts
    /\ \E c \in D.chart : c.column = 12 /\ c.width = 13
    /\ \E i \in DOMAIN PCharts :
          JsonGet(PCharts[i], "column") = 12 /\ JsonGet(PCharts[i], "width") = 13

(***************************************************************************)
(* C6: sources has one entry per filter with property, NOT (= negated,     *)
(* also when false) and value (the strings of values); variables has one   *)
(* entry per variable with property, alias and value.                      *)
(***************************************************************************)
C6_FiltersAndVariables ==
    Built =>
        /\ Len(PSources) = Cardinality(D.filter)
        /\ \A i \in DOMAIN PSources :
              /\ JsonKeys(PSources[i]) = {"property", "NOT", "value"}
              /\ Len(JsonGet(PSources[i], "value"))
                    = Cardinality(Range(JsonGet(PSources[i], "value")))
        /\ { ParseFilter(PSources[i]) : i \in DOMAIN PSources } = D.filter
        /\ Len(PVariables) = Cardinality(D.variable)
        /\ \A i \in DOMAIN PVariables :
              /\ JsonKeys(PVariables[i]) = {"property", "alias", "value"}
              /\ Len(JsonGet(PVariables[i], "value"))
                    = Cardinality(Range(JsonGet(PVariables[i], "value")))
        /\ { ParseVariable(PVariables[i]) : i \in DOMAIN PVariables } = D.variable

C6_Witness ==
    /\ Built
    /\ \E f \in D.filter : ~f.negated /\ f.values = {"a", "b"}
    /\ D.variable # {}
    /\ \E i \in DOMAIN PSources :
          /\ JsonGet(PSources[i], "NOT") = FALSE
          /\ Range(JsonGet(PSources[i], "value")) = {"a", "b"}
    /\ Len(PVariables) = 1

(***************************************************************************)
(* C7: when building the payload fails in dashboardCreate or               *)
(* dashboardUpdate, the handler returns an error and calls no helper; a    *)
(* helper is called only with a payload that was built.                    *)
(***************************************************************************)
C7_NoCallAfterPayloadError ==
    last.op \in {"create", "update"} =>
        /\ last.translated
        /\ last.built.err # Nil => (last.calls = <<>> /\ last.result # Nil)
        /\ \A i \in DOMAIN last.calls :
              /\ last.built.err = Nil
              /\ last.calls[i].hasPayload
              /\ last.calls[i].payload = last.built.bytes

C7_Witness ==
    /\ last.op = "update"
    /\ last.built.err # Nil
    /\ last.calls = <<>>
    /\ last.result = Errorf(last.built.err)

(***************************************************************************)
(* C8: Create calls the bare endpoint; Read, Update and Delete call        *)
(* <endpoint>/<id> with the identifier the description has when the        *)
(* handler starts; only Create and Update carry a payload, and Read and    *)
(* Delete do not call the translator.                                      *)
(***************************************************************************)
C8_Targets ==
    [][ /\ last'.op = "create" =>
              \A i \in DOMAIN last'.calls :
                  /\ last'.calls[i].helper = "resourceCreate"
                  /\ last'.calls[i].url = <<DASHBOARD_API_URL>>
                  /\ last'.calls[i].hasPayload
        /\ last'.op \in {"read", "update", "delete"} =>
              \A i \in DOMAIN last'.calls :
                  last'.calls[i].url = <<DASHBOARD_API_URL, d.id>>
        /\ last'.op = "update" =>
              \A i \in DOMAIN last'.calls :
                  /\ last'.calls[i].helper = "resourceUpdate"
                  /\ last'.calls[i].hasPayload
        /\ last'.op = "read" =>
              /\ ~last'.translated
              /\ \A i \in DOMAIN last'.calls :
                    last'.calls[i].helper = "resourceRead" /\ ~last'.calls[i].hasPayload
        /\ last'.op = "delete" =>
              /\ ~last'.translated
              /\ \A i \in DOMAIN last'.calls :
                    last'.calls[i].helper = "resourceDelete" /\ ~last'.calls[i].hasPayload
      ]_vars

C8_Witness ==
    /\ last.op = "delete"
    /\ last.desc.id = "d2"
    /\ Len(last.calls) = 1
    /\ last.calls[1].url = <<DASHBOARD_API_URL, "d2">>
    /\ created.set

(***************************************************************************)
(* C9: a handler calls the helper at most once, and when it calls it the   *)
(* handler returns what the helper returned: its error unchanged, or nil.  *)
(***************************************************************************)
C9_HelperResultVerbatim ==
    /\ Len(last.calls) <= 1
    /\ \A i \in DOMAIN last.calls : last.result = last.calls[i].err

C9_Witness ==
    /\ last.op = "read"
    /\ Len(last.calls) = 1
    /\ last.calls[1].err = "transport error"
    /\ last.result = "transport error"

(***************************************************************************)
(* C10: the translator only reads the description: a handler that stops    *)
(* after the translator leaves the description and its identifier as they  *)
(* were, and an Update of the description Create was given sends the       *)
(* payload Create sent, whatever the identifier and the handlers that ran  *)
(* in between.                                                             *)
(***************************************************************************)
C10_TranslatorReadsOnly ==
    [][ /\ (last'.translated /\ last'.calls = <<>>) => d' = d
        /\ ( /\ last'.op = "update"
             /\ last'.calls # <<>>
             /\ created.set
             /\ created.desc = Fields(d) )
           => \A i \in DOMAIN last'.calls : last'.calls[i].payload = created.payload
      ]_vars

C10_Witness ==
    /\ last.op = "update"
    /\ Len(last.calls) = 1
    /\ created.set
    /\ created.desc = Fields(last.desc)
    /\ last.desc.id = "d1"
    /\ last.calls[1].payload = created.payload

====
